---- MODULE Spec2Model ----
(***************************************************************************)
(* Paper ingestion and retrieval pipeline of paper-source:                 *)
(*   Paper (paper_class.py), download_link / contains_arxiv_reference      *)
(*   (tools.py), _PaperSource and its two subclasses (paper_source.py),    *)
(*   PaperCollection (paper_collection.py).                                *)
(* Text is a sequence of one-character strings.                            *)
(***************************************************************************)
EXTENDS Integers, Sequences, FiniteSets, TLC

VARIABLES
    \* ---- Paper construction (paper_class.py) ----
    stage,          \* "new" | "constructed" | "resanitized"
    arg_title,      \* the title argument handed to Paper(...)
    self_title,     \* Paper.title as stored by __init__
    again,          \* sanitize_title applied to the stored title
    \* ---- _PaperSource (paper_source.py) ----
    pc,             \* "new" | "init" (inside __init__) | "ready" | "raised"
    kind,           \* "summary" (PaperSummarySource) | "content" (PaperContentSource)
    ignore_references_,
    chunk_size_,
    papers_,        \* the registry dict: key -> Paper (the caller's own dict object)
    todo,           \* keys papers.items() has still to yield, in dict order
    doc_list,       \* the chunks collected so far by __init__
    db_,            \* the documents of the Chroma collection
    failed,         \* the keys whose _process_paper raised
    disk,           \* local files: path -> [valid, pages]
    wget_calls,     \* how many times download_link has been called
    \* ---- PaperCollection (paper_collection.py) ----
    tpc,            \* per caller thread: "idle" | "line10" | "done"
    targ,           \* per caller thread: the Paper handed to add_paper
    tres,           \* per caller thread: the outcome of add_paper
    gp,             \* the last get_paper call: [called, title, raised, ret]
    \* ---- retrieve and PaperChat / PaperCollectionChat ----
    call,           \* the call in progress or last made: retrieve or source_and_summarize
    \* ---- single functions, each tried on its own inputs ----
    dl,             \* Paper.download: [calls, paper, folder, use_title, ret]
    chunker,        \* CharacterTextSplitter: [stage, text, chunk_size, chunk_overlap, chunks]
    cite            \* the citation methods: [stage, paper, method, raised, ret]

titleVars == <<stage, arg_title, self_title, again>>
sourceVars == <<pc, kind, ignore_references_, chunk_size_, papers_, todo, doc_list, db_, failed,
                disk, wget_calls>>
collectionVars == <<tpc, targ, tres, gp>>
extVars == <<call, dl, chunker, cite>>
vars == <<stage, arg_title, self_title, again, pc, kind, ignore_references_, chunk_size_,
          papers_, todo, doc_list, db_, failed, disk, wget_calls, tpc, targ, tres, gp,
          call, dl, chunker, cite>>

----------------------------------------------------------------------------
(* Bounds *)

\* longest title argument tried
MaxTitleLen == 4
\* most entries in the dict handed to a Paper Source
MaxBatch == 2
\* a chunk_size small enough for a summary to be cut in two
SmallChunkSize == 3
MaxPages == 2
MaxDownloads == 3
MaxTextLen == 5
MaxWindow == 3
MaxSecondDigits == 6
MaxRetrieval == 2

----------------------------------------------------------------------------
(* Characters *)

NL == "\n"
SP == " "
Digits == {"0", "1", "2", "3", "4", "5", "6", "7", "8", "9"}
Letters == {"a", "b", "c", "d", "e", "f", "g", "h", "i", "j", "k", "l", "m",
            "n", "o", "p", "q", "r", "s", "t", "u", "v", "w", "x", "y", "z",
            "A", "B", "C", "D", "E", "F", "G", "H", "I", "J", "K", "L", "M",
            "N", "O", "P", "Q", "R", "S", "T", "U", "V", "W", "X", "Y", "Z"}
\* \w of Python's re
WordChars == Letters \cup Digits \cup {"_"}
\* what str.strip() removes
Whitespace == {SP, NL, "\t", "\r", "\f"}

\* the nine characters the title invariant forbids
ForbiddenChars == {"/", "\\", ":", "*", "?", "\"", "<", ">", "|"}
\* the characters a title argument is built from
TitleChars == ForbiddenChars \cup {NL, SP, "_", "a"}

RECURSIVE StringsUpTo(_, _)
StringsUpTo(alphabet, n) ==
    IF n = 0 THEN {<<>>}
    ELSE LET shorter == StringsUpTo(alphabet, n - 1)
         IN shorter \cup {Append(s, c) : s \in {x \in shorter : Len(x) = n - 1}, c \in alphabet}

Drop(s, n) == SubSeq(s, n + 1, Len(s))

----------------------------------------------------------------------------
(* Paper.sanitize_title *)

\* the character class of re.sub(r'[\/:*?"<>|]', '_', title): \/ is an escaped
\* slash, so the class holds the slash and not the backslash
InvalidChars == {"/", ":", "*", "?", "\"", "<", ">", "|"}

re_sub(title) ==
    [i \in 1..Len(title) |-> IF title[i] \in InvalidChars THEN "_" ELSE title[i]]

\* title.replace('\n ', ''): one left-to-right pass over non-overlapping occurrences
RECURSIVE replace_nl_sp(_)
replace_nl_sp(s) ==
    IF s = <<>> THEN <<>>
    ELSE IF Len(s) >= 2 /\ s[1] = NL /\ s[2] = SP THEN replace_nl_sp(Drop(s, 2))
    ELSE <<s[1]>> \o replace_nl_sp(Tail(s))

sanitize_title(title) == replace_nl_sp(re_sub(title))

----------------------------------------------------------------------------
(* tools.contains_arxiv_reference *)

AllDigits(s, from, to) == \A i \in from..to : s[i] \in Digits

\* no \b at the end of the pattern: anything may follow
AnythingAfter(s, j) == j <= Len(s)

\* \b after position j: the text ends there or a non-word character follows
BoundaryAfter(s, j) == j = Len(s) \/ (j < Len(s) /\ s[j + 1] \notin WordChars)

ArxivToken == <<"a", "r", "X", "i", "v", ":">>

\* r'\barXiv:\d{4}\.\d{4,5}\b' matched with its first character at position i
arxiv_pattern_at(s, i) ==
    /\ i + 14 <= Len(s)
    /\ (i = 1 \/ s[i - 1] \notin WordChars)
    /\ SubSeq(s, i, i + 5) = ArxivToken
    /\ AllDigits(s, i + 6, i + 9)
    /\ s[i + 10] = "."
    /\ AllDigits(s, i + 11, i + 14)
    /\ \/ BoundaryAfter(s, i + 14)
       \/ (i + 15 <= Len(s) /\ s[i + 15] \in Digits /\ BoundaryAfter(s, i + 15))

contains_arxiv_reference(input_string) ==
    \E i \in 1..Len(input_string) : arxiv_pattern_at(input_string, i)

----------------------------------------------------------------------------
(* langchain's CharacterTextSplitter, as the two _process_paper methods use it: *)
(* separator "\n\n", the separator not kept, whitespace stripped                *)

Separator == <<NL, NL>>

\* re.split(separator, text): cur is the piece being read
RECURSIVE re_split(_, _)
re_split(text, cur) ==
    IF text = <<>> THEN <<cur>>
    ELSE IF Len(text) >= 2 /\ SubSeq(text, 1, 2) = Separator
         THEN <<cur>> \o re_split(Drop(text, 2), <<>>)
         ELSE re_split(Tail(text), Append(cur, text[1]))

\* the empty pieces are dropped
split_text_with_regex(text) == SelectSeq(re_split(text, <<>>), LAMBDA piece : piece # <<>>)

RECURSIVE lstrip(_)
lstrip(s) == IF s # <<>> /\ s[1] \in Whitespace THEN lstrip(Tail(s)) ELSE s

RECURSIVE rstrip(_)
rstrip(s) ==
    IF s # <<>> /\ s[Len(s)] \in Whitespace THEN rstrip(SubSeq(s, 1, Len(s) - 1)) ELSE s

strip(s) == rstrip(lstrip(s))

RECURSIVE join(_, _)
join(pieces, sep) ==
    IF pieces = <<>> THEN <<>>
    ELSE IF Len(pieces) = 1 THEN pieces[1]
    ELSE pieces[1] \o sep \o join(Tail(pieces), sep)

\* _join_docs: the joined, stripped text as a one-element list, or nothing when it is empty
join_docs(current_doc) ==
    LET text == strip(join(current_doc, Separator))
    IN IF text = <<>> THEN <<>> ELSE <<text>>

SepLenIf(cond) == IF cond THEN Len(Separator) ELSE 0

\* the while loop of _merge_splits that drops pieces from the front of current_doc
RECURSIVE pop_front(_, _, _, _, _)
pop_front(current_doc, total, len, chunk_size, chunk_overlap) ==
    IF current_doc # <<>>
       /\ (total > chunk_overlap
           \/ (total + len + SepLenIf(Len(current_doc) > 0) > chunk_size /\ total > 0))
    THEN pop_front(Tail(current_doc),
                   total - (Len(current_doc[1]) + SepLenIf(Len(current_doc) > 1)),
                   len, chunk_size, chunk_overlap)
    ELSE [current_doc |-> current_doc, total |-> total]

\* _merge_splits: the for loop over the pieces, then the last join
RECURSIVE merge_splits(_, _, _, _, _)
merge_splits(splits, current_doc, total, chunk_size, chunk_overlap) ==
    IF splits = <<>> THEN join_docs(current_doc)
    ELSE LET d == splits[1]
             len == Len(d)
             full == total + len + SepLenIf(Len(current_doc) > 0) > chunk_size
             emit == IF full /\ Len(current_doc) > 0 THEN join_docs(current_doc) ELSE <<>>
             kept == IF full /\ Len(current_doc) > 0
                     THEN pop_front(current_doc, total, len, chunk_size, chunk_overlap)
                     ELSE [current_doc |-> current_doc, total |-> total]
             next_doc == Append(kept.current_doc, d)
             next_total == kept.total + len + SepLenIf(Len(next_doc) > 1)
         IN emit \o merge_splits(Tail(splits), next_doc, next_total, chunk_size, chunk_overlap)

split_text(text, chunk_size, chunk_overlap) ==
    merge_splits(split_text_with_regex(text), <<>>, 0, chunk_size, chunk_overlap)

\* Document(page_content, metadata): page is NoPage when the metadata has no page
NoPage == -1
Document(page_content, source, page) ==
    [page_content |-> page_content, source |-> source, page |-> page]

\* create_documents([text], [metadata]): one Document per chunk, each with the metadata
create_documents(text, source, page, chunk_size, chunk_overlap) ==
    LET chunks == split_text(text, chunk_size, chunk_overlap)
    IN [i \in 1..Len(chunks) |-> Document(chunks[i], source, page)]

----------------------------------------------------------------------------
(* Paper (paper_class.py) *)

\* Paper.__init__: the title is stored sanitized, the other fields as given
Paper(title, summary, url, authors, publish_date) ==
    [title |-> sanitize_title(title), summary |-> summary, url |-> url,
     authors |-> authors, publish_date |-> publish_date]

\* url.split('/')[-1]: what follows the last slash
RECURSIVE url_suffix(_)
url_suffix(url) ==
    IF \E i \in 1..Len(url) : url[i] = "/"
    THEN url_suffix(Drop(url, CHOOSE i \in 1..Len(url) : url[i] = "/"))
    ELSE url

DownloadsFolder == <<"d", "o", "w", "n", "l", "o", "a", "d", "s">>

\* os.path.join(folder, file_name)
path_join(folder, file_name) == folder \o <<"/">> \o file_name

DictSet(d, k, v) == [x \in DOMAIN d \cup {k} |-> IF x = k THEN v ELSE d[x]]
DictDel(d, k) == [x \in DOMAIN d \ {k} |-> d[x]]
EmptyDict == <<>>

\* what the network can do to one wget call
FetchOutcomes == {"ok", "empty_file", "no_file"}

\* the document the server holds under each url, as the text of its pages
PdfOf(url) ==
    CASE url = <<"x", "/", "1">> ->
           << <<"a", "b">>,
              <<"a", "r", "X", "i", "v", ":", "2", "3", "0", "9", ".", "0", "0", "2", "4", "0">> >>
      [] url = <<"x", "/", "2">> -> << <<"c", "d">> >>
      [] OTHER -> << <<"e", NL, NL, "f">> >>

\* tools.download_link: wget -O writes the file; its exit status is not looked at and
\* nothing is raised to the caller, whatever the outcome
download_link(url, filepath, outcome, files) ==
    CASE outcome = "ok" -> DictSet(files, filepath, [valid |-> TRUE, pages |-> PdfOf(url)])
      [] outcome = "empty_file" -> DictSet(files, filepath, [valid |-> FALSE, pages |-> <<>>])
      [] OTHER -> files

\* a download that does not look for the file first
download_always(paper, folder, use_title, outcome, files) ==
    LET file_name == IF use_title THEN paper.title ELSE url_suffix(paper.url)
        file_path == path_join(folder, file_name)
    IN [file_path |-> file_path,
        invoked |-> TRUE,
        files |-> download_link(paper.url, file_path, outcome, files)]

\* a download that fetches again when the file there holds another url's document
download_own_file(paper, folder, use_title, outcome, files) ==
    LET file_name == IF use_title THEN paper.title ELSE url_suffix(paper.url)
        file_path == path_join(folder, file_name)
        there == file_path \in DOMAIN files /\ files[file_path].pages = PdfOf(paper.url)
    IN [file_path |-> file_path,
        invoked |-> ~there,
        files |-> IF there THEN files ELSE download_link(paper.url, file_path, outcome, files)]

\* Paper.download: the path, whether download_link was called, and the files afterwards
download(paper, folder, use_title, outcome, files) ==
    LET file_name == IF use_title THEN paper.title ELSE url_suffix(paper.url)
        file_path == path_join(folder, file_name)
    IN [file_path |-> file_path,
        invoked |-> file_path \notin DOMAIN files,
        files |-> IF file_path \in DOMAIN files
                  THEN files
                  ELSE download_link(paper.url, file_path, outcome, files)]

----------------------------------------------------------------------------
(* The two _process_paper methods (paper_source.py) *)

SummaryOverlap == 0
ContentChunkSize == 500
ContentChunkOverlap == 50
DefaultChunkSize == 2000

RECURSIVE Flatten(_)
Flatten(seqs) == IF seqs = <<>> THEN <<>> ELSE seqs[1] \o Flatten(Tail(seqs))

\* PaperSummarySource._process_paper
PaperSummarySource_process_paper(paper, chunk_size) ==
    create_documents(paper.summary, paper.title, NoPage, chunk_size, SummaryOverlap)

\* PyPDFLoader(pdf_path).load() raises when there is no file or no PDF in it
loader_raises(files, pdf_path) == pdf_path \notin DOMAIN files \/ ~files[pdf_path].valid

\* text_splitter.split_documents(pdf): page i of the file, split, keeps its page number
split_documents(pages, pdf_path) ==
    Flatten([i \in 1..Len(pages) |->
                create_documents(pages[i], pdf_path, i - 1, ContentChunkSize, ContentChunkOverlap)])

\* the loop that drops the reference chunks and writes the title into the others
tag_and_filter(docs, title, ignore_references) ==
    LET keep(doc) == ~(ignore_references /\ contains_arxiv_reference(doc.page_content))
        kept == SelectSeq(docs, keep)
    IN [i \in 1..Len(kept) |-> [kept[i] EXCEPT !.source = title]]

\* PaperContentSource._process_paper: [raised, docs, files, invoked]
PaperContentSource_process_paper(paper, ignore_references, outcome, files) ==
    LET got == download(paper, DownloadsFolder, FALSE, outcome, files)
    IN IF loader_raises(got.files, got.file_path)
       THEN [raised |-> TRUE, docs |-> <<>>, files |-> got.files, invoked |-> got.invoked]
       ELSE [raised |-> FALSE,
             docs |-> tag_and_filter(split_documents(got.files[got.file_path].pages, got.file_path),
                                     paper.title, ignore_references),
             files |-> got.files,
             invoked |-> got.invoked]

----------------------------------------------------------------------------
(* The papers the callers work with *)

\* metadata as a caller or the arXiv feed supplies it (test_utils.get_test_papers
\* for the first two; arXiv wraps long titles with a newline and spaces)
RawPapers ==
    { [title |-> <<"p", "a", "p", "e", "r", SP, "1">>,
       summary |-> <<"a", "b", NL, NL, "c", "d">>,
       url |-> <<"x", "/", "1">>],
      [title |-> <<"p", "a", "p", "e", "r", SP, "2">>,
       summary |-> <<>>,
       url |-> <<"x", "/", "2">>],
      [title |-> <<"p", "a", "p", "e", "r", NL, SP, SP, "1">>,
       summary |-> <<"c">>,
       url |-> <<"y", "/", "2">>] }

\* datetime.strptime("2020", "%Y"), the publish_date of the test papers
TestDate == [type |-> "datetime", year |-> 2020]

PaperOf(raw) == Paper(raw.title, raw.summary, raw.url, <<"Xiang Li", ", Yiqun Yao">>, TestDate)

PaperPool == {PaperOf(raw) : raw \in RawPapers}

\* a caller keys a paper by the title it holds: the raw one or the sanitized one
Entries == {<<raw.title, PaperOf(raw)>> : raw \in RawPapers}
           \cup {<<PaperOf(raw).title, PaperOf(raw)>> : raw \in RawPapers}

AllKeys == {e[1] : e \in Entries}

\* the dicts a caller can hand to a Paper Source
InputDicts ==
    LET ok(E) == Cardinality(E) <= MaxBatch /\ \A e, f \in E : e[1] = f[1] => e = f
    IN {[k \in {e[1] : e \in E} |-> (CHOOSE e \in E : e[1] = k)[2]] : E \in {E \in SUBSET Entries : ok(E)}}

\* the orders in which a dict's keys can have been inserted
Orders(keys) == {o \in [1..Cardinality(keys) -> keys] : \A i, j \in DOMAIN o : o[i] = o[j] => i = j}

Threads == {1, 2}
NoPaper == <<>>
NoCall == [called |-> FALSE, title |-> <<>>, raised |-> "", ret |-> <<>>]

----------------------------------------------------------------------------
(* Paper construction *)

TitleIdle == stage = "new" /\ arg_title = <<>> /\ self_title = <<>> /\ again = <<>>

SourceIdle ==
    /\ pc = "new" /\ kind = "summary" /\ ignore_references_ = TRUE
    /\ chunk_size_ = DefaultChunkSize /\ papers_ = EmptyDict /\ todo = <<>>
    /\ doc_list = <<>> /\ db_ = <<>> /\ failed = {} /\ disk = EmptyDict /\ wget_calls = 0

CollectionIdle ==
    /\ tpc = [t \in Threads |-> "idle"] /\ targ = [t \in Threads |-> NoPaper]
    /\ tres = [t \in Threads |-> ""] /\ gp = NoCall

NoOp == [op |-> "none"]
NoDownload == [calls |-> 0]
NotTried == [stage |-> "new"]

ExtIdle == call = NoOp /\ dl = NoDownload /\ chunker = NotTried /\ cite = NotTried

Init == TitleIdle /\ SourceIdle /\ CollectionIdle /\ ExtIdle

\* Paper.__init__ (the title line)
PaperInit(title) ==
    /\ stage = "new"
    /\ arg_title' = title
    /\ self_title' = Paper(title, <<>>, <<>>, <<>>, TestDate).title
    /\ stage' = "constructed"
    /\ UNCHANGED <<again, sourceVars, collectionVars, extVars>>

\* a second call of sanitize_title, on the stored title
Resanitize ==
    /\ stage = "constructed"
    /\ again' = sanitize_title(self_title)
    /\ stage' = "resanitized"
    /\ UNCHANGED <<arg_title, self_title, sourceVars, collectionVars, extVars>>

NextTitle ==
    \/ stage = "new" /\ \E title \in StringsUpTo(TitleChars, MaxTitleLen) : PaperInit(title)
    \/ Resanitize

SpecTitle == Init /\ [][NextTitle]_vars

----------------------------------------------------------------------------
(* _PaperSource.__init__ *)

\* the subclass sets its own member, then the base class takes the dict as its registry
Construct(k, papers, order, ignore_references, chunk_size) ==
    /\ pc = "new"
    /\ pc' = "init"
    /\ kind' = k
    /\ ignore_references_' = ignore_references
    /\ chunk_size_' = chunk_size
    /\ papers_' = papers
    /\ todo' = order
    /\ doc_list' = <<>>
    /\ UNCHANGED <<db_, failed, disk, wget_calls, titleVars, collectionVars, extVars>>

\* one round of "for title, paper in papers.items()" in a PaperSummarySource
ProcessSummary ==
    /\ pc = "init" /\ kind = "summary" /\ todo # <<>>
    /\ doc_list' = doc_list \o PaperSummarySource_process_paper(papers_[Head(todo)], chunk_size_)
    /\ todo' = Tail(todo)
    /\ UNCHANGED <<pc, kind, ignore_references_, chunk_size_, papers_, db_, failed, disk,
                   wget_calls, titleVars, collectionVars, extVars>>

\* one round of the loop in a PaperContentSource; an exception of the loader leaves __init__
ProcessContent(outcome) ==
    /\ pc = "init" /\ kind = "content" /\ todo # <<>>
    /\ LET r == PaperContentSource_process_paper(papers_[Head(todo)], ignore_references_, outcome, disk)
       IN /\ disk' = r.files
          /\ wget_calls' = wget_calls + (IF r.invoked THEN 1 ELSE 0)
          /\ IF r.raised
             THEN /\ pc' = "raised"
                  /\ failed' = failed \cup {Head(todo)}
                  /\ UNCHANGED <<doc_list, todo>>
             ELSE /\ doc_list' = doc_list \o r.docs
                  /\ todo' = Tail(todo)
                  /\ UNCHANGED <<pc, failed>>
    /\ UNCHANGED <<kind, ignore_references_, chunk_size_, papers_, db_, titleVars, collectionVars, extVars>>

\* Chroma.from_documents(documents=doc_list, ...)
BuildIndex ==
    /\ pc = "init" /\ todo = <<>>
    /\ db_' = doc_list
    /\ pc' = "ready"
    /\ UNCHANGED <<kind, ignore_references_, chunk_size_, papers_, todo, doc_list, failed, disk,
                   wget_calls, titleVars, collectionVars, extVars>>

\* papers() hands out the registry dict itself: the caller stores into it
papers_setitem(key, paper) ==
    /\ pc = "ready"
    /\ papers_' = DictSet(papers_, key, paper)
    /\ papers_' # papers_
    /\ UNCHANGED <<pc, kind, ignore_references_, chunk_size_, todo, doc_list, db_, failed, disk,
                   wget_calls, titleVars, collectionVars, extVars>>

\* ... or deletes from it
papers_delitem(key) ==
    /\ pc = "ready"
    /\ key \in DOMAIN papers_
    /\ papers_' = DictDel(papers_, key)
    /\ UNCHANGED <<pc, kind, ignore_references_, chunk_size_, todo, doc_list, db_, failed, disk,
                   wget_calls, titleVars, collectionVars, extVars>>

----------------------------------------------------------------------------
(* PaperCollection *)

\* a thread enters PaperCollection.add_paper(paper)
add_paper_call(t, paper) ==
    /\ pc = "ready" /\ tpc[t] = "idle"
    /\ tpc' = [tpc EXCEPT ![t] = "line10"]
    /\ targ' = [targ EXCEPT ![t] = paper]
    /\ UNCHANGED <<tres, gp, sourceVars, titleVars, extVars>>

\* self.paper_summary_source_.add_paper(paper): no class in paper_source.py defines
\* add_paper, so the attribute lookup raises
add_paper_line10(t) ==
    /\ tpc[t] = "line10"
    /\ tpc' = [tpc EXCEPT ![t] = "done"]
    /\ tres' = [tres EXCEPT ![t] = "AttributeError"]
    /\ UNCHANGED <<targ, gp, sourceVars, titleVars, extVars>>

\* PaperCollection.get_paper(title): "get_all_papers" is no global name, so the call
\* raises before the registry is looked at
get_paper(title) ==
    /\ pc = "ready"
    /\ gp' = [called |-> TRUE, title |-> title, raised |-> "NameError", ret |-> <<>>]
    /\ gp' # gp
    /\ UNCHANGED <<tpc, targ, tres, sourceVars, titleVars, extVars>>

Next ==
    \/ \E papers \in InputDicts : \E order \in Orders(DOMAIN papers) :
          \/ \E chunk_size \in {SmallChunkSize, DefaultChunkSize} : Construct("summary", papers, order, TRUE, chunk_size)
          \/ \E ignore_references \in BOOLEAN :
                Construct("content", papers, order, ignore_references, DefaultChunkSize)
    \/ ProcessSummary
    \/ \E outcome \in FetchOutcomes : ProcessContent(outcome)
    \/ BuildIndex
    \/ \E e \in Entries : papers_setitem(e[1], e[2])
    \/ \E key \in AllKeys : papers_delitem(key)
    \/ \E t \in Threads : \E paper \in PaperPool : add_paper_call(t, paper)
    \/ \E t \in Threads : add_paper_line10(t)
    \/ \E title \in AllKeys : get_paper(title)

Spec == Init /\ [][Next]_vars

----------------------------------------------------------------------------
(* retrieve (paper_source.py, document_source.py) *)

\* the optional argument num_retrieval: None, or an int
None == <<>>
Some(n) == <<n>>

\* a test that takes only None for "not given"
is_None(num_retrieval) == num_retrieval = None

\* Python's "not num_retrieval"
falsy(num_retrieval) == num_retrieval = None \/ num_retrieval[1] = 0

Queries == {"q1", "q2"}

Min(a, b) == IF a <= b THEN a ELSE b

Reverse(s) == [i \in 1..Len(s) |-> s[Len(s) + 1 - i]]

\* the order of nearness the embeddings give the stored chunks for one query
ranked(index, query) == IF query = "q1" THEN index ELSE Reverse(index)

\* an index that hands out every chunk it holds, whatever k is
similarity_search_all(index, query, k) == ranked(index, query)

\* Chroma.similarity_search(query, k): the k nearest chunks, all of them if there are fewer
similarity_search(index, query, k) == SubSeq(ranked(index, query), 1, Min(k, Len(index)))

\* _PaperSource.retrieve: the k asked of the index and the sources returned
PaperSource_retrieve(registry, index, query, num_retrieval) ==
    LET k == IF falsy(num_retrieval) THEN Cardinality(DOMAIN registry) ELSE num_retrieval[1]
    IN [k |-> k, sources |-> similarity_search(index, query, k)]

\* a caller calls retrieve on the Paper Source
retrieve(query, num_retrieval) ==
    /\ pc = "ready"
    /\ LET r == PaperSource_retrieve(papers_, db_, query, num_retrieval)
       IN call' = [op |-> "retrieve", cls |-> "_PaperSource", query |-> query,
                   num_retrieval |-> num_retrieval, raised |-> "", k |-> r.k,
                   sources |-> r.sources]
    /\ call' # call
    /\ UNCHANGED <<dl, chunker, cite, sourceVars, titleVars, collectionVars>>

\* DocumentSource.retrieve, on a DocumentSource built from the same documents: the class
\* never sets papers_, so len(self.papers_) raises
DocumentSource_retrieve(query, num_retrieval) ==
    /\ pc = "ready"
    /\ call' = IF falsy(num_retrieval)
               THEN [op |-> "retrieve", cls |-> "DocumentSource", query |-> query,
                     num_retrieval |-> num_retrieval, raised |-> "AttributeError", k |-> 0,
                     sources |-> <<>>]
               ELSE [op |-> "retrieve", cls |-> "DocumentSource", query |-> query,
                     num_retrieval |-> num_retrieval, raised |-> "", k |-> num_retrieval[1],
                     sources |-> similarity_search(doc_list, query, num_retrieval[1])]
    /\ call' # call
    /\ UNCHANGED <<dl, chunker, cite, sourceVars, titleVars, collectionVars>>

----------------------------------------------------------------------------
(* PaperChat.source_and_summarize (paper_chat.py), PaperCollectionChat *)

\* what one openai.ChatCompletion.create call can do
LLMOutcomes == {"answer", "error"}

\* the answer of the model to the prompt made of the user's query and one chunk
answer_of(user_query, page_content) == <<"summary", user_query>> \o page_content

\* source.metadata['summary'] = summary
set_summary(source, summary) == DictSet(source, "summary", summary)

\* the same lines without the check for an empty result
source_and_summarize_call_unchecked(user_query, num_retrieval) ==
    /\ pc = "ready"
    /\ LET r == PaperSource_retrieve(papers_, db_, user_query, num_retrieval)
       IN call' = [op |-> "source_and_summarize", cls |-> "PaperChat", query |-> user_query,
                   num_retrieval |-> num_retrieval,
                   at |-> IF Len(r.sources) = 0 THEN "returned" ELSE "loop",
                   raised |-> "",
                   retrieved |-> r.sources,
                   sources |-> r.sources,
                   prompts |-> <<>>]
    /\ call' # call
    /\ UNCHANGED <<dl, chunker, cite, sourceVars, titleVars, collectionVars>>

\* the lines up to the loop: retrieve, and the check for an empty result
source_and_summarize_call(user_query, num_retrieval) ==
    /\ pc = "ready"
    /\ LET r == PaperSource_retrieve(papers_, db_, user_query, num_retrieval)
       IN call' = [op |-> "source_and_summarize", cls |-> "PaperChat", query |-> user_query,
                   num_retrieval |-> num_retrieval,
                   at |-> IF Len(r.sources) = 0 THEN "raised" ELSE "loop",
                   raised |-> IF Len(r.sources) = 0 THEN "ValueError: No sources found." ELSE "",
                   retrieved |-> r.sources,
                   sources |-> r.sources,
                   prompts |-> <<>>]
    /\ call' # call
    /\ UNCHANGED <<dl, chunker, cite, sourceVars, titleVars, collectionVars>>

\* a loop that keeps the answer of the last chunk only, under the first chunk
agent_query_first_chunk(outcome) ==
    /\ call.op = "source_and_summarize" /\ call.at = "loop"
    /\ LET i == Len(call.prompts) + 1
           source == call.sources[i]
           summary == answer_of(call.query, source.page_content)
       IN call' = IF outcome = "error"
                  THEN [call EXCEPT !.prompts = Append(@, source.page_content),
                                    !.at = "raised",
                                    !.raised = "openai.error"]
                  ELSE [call EXCEPT !.prompts = Append(@, source.page_content),
                                    !.sources[1] = set_summary(call.sources[1], summary),
                                    !.at = IF i = Len(call.sources) THEN "returned" ELSE "loop"]
    /\ UNCHANGED <<dl, chunker, cite, sourceVars, titleVars, collectionVars>>

\* one round of "for source in sources": agent.query is called with the chunk's text; its
\* exception leaves the method, its answer is stored in the chunk's metadata; after the
\* last round the method returns sources
agent_query(outcome) ==
    /\ call.op = "source_and_summarize" /\ call.at = "loop"
    /\ LET i == Len(call.prompts) + 1
           source == call.sources[i]
           summary == answer_of(call.query, source.page_content)
       IN call' = IF outcome = "error"
                  THEN [call EXCEPT !.prompts = Append(@, source.page_content),
                                    !.at = "raised",
                                    !.raised = "openai.error"]
                  ELSE [call EXCEPT !.prompts = Append(@, source.page_content),
                                    !.sources[i] = set_summary(source, summary),
                                    !.at = IF i = Len(call.sources) THEN "returned" ELSE "loop"]
    /\ UNCHANGED <<dl, chunker, cite, sourceVars, titleVars, collectionVars>>

\* PaperCollectionChat.__init__: "functools" is not imported, so no instance comes to be
PaperCollectionChat_init ==
    /\ pc = "ready"
    /\ call' = [op |-> "PaperCollectionChat", raised |-> "NameError"]
    /\ call' # call
    /\ UNCHANGED <<dl, chunker, cite, sourceVars, titleVars, collectionVars>>

NumRetrievals == {None} \cup {Some(n) : n \in 0..MaxRetrieval}

NextChat ==
    \/ \E papers \in InputDicts : \E order \in Orders(DOMAIN papers) :
          \/ \E chunk_size \in {SmallChunkSize, DefaultChunkSize} : Construct("summary", papers, order, TRUE, chunk_size)
          \/ \E ignore_references \in BOOLEAN :
                Construct("content", papers, order, ignore_references, DefaultChunkSize)
    \/ ProcessSummary
    \/ \E outcome \in FetchOutcomes : ProcessContent(outcome)
    \/ BuildIndex
    \/ \E e \in Entries : papers_setitem(e[1], e[2])
    \/ \E key \in AllKeys : papers_delitem(key)
    \/ \E query \in Queries : \E num_retrieval \in NumRetrievals : retrieve(query, num_retrieval)
    \/ \E query \in Queries : \E num_retrieval \in NumRetrievals : DocumentSource_retrieve(query, num_retrieval)
    \/ \E query \in Queries : \E num_retrieval \in NumRetrievals : source_and_summarize_call(query, num_retrieval)
    \/ \E outcome \in LLMOutcomes : agent_query(outcome)
    \/ PaperCollectionChat_init

SpecChat == Init /\ [][NextChat]_vars

----------------------------------------------------------------------------
(* A PaperContentSource over a file that is already in the downloads folder *)

FirstDigits == <<"2", "3", "0", "9">>
SecondDigits == <<"0", "0", "2", "4", "0", "1", "7", "5">>

\* page texts around the pattern of contains_arxiv_reference: the identifier with 3 and
\* more digits after the period, alone, after a letter, before a letter, or in brackets
ReferenceTexts ==
    {affix[1] \o ArxivToken \o FirstDigits \o <<".">> \o SubSeq(SecondDigits, 1, n) \o affix[2] :
         affix \in {<< <<>>, <<>> >>, << <<"x">>, <<>> >>, << <<>>, <<"v">> >>, << <<"(">>, <<")">> >>},
         n \in 3..MaxSecondDigits}
    \cup {ArxivToken \o <<"2", "3", ".", "4", "5", "6">>, <<"a", "b">>}

RECURSIVE SeqsUpTo(_, _)
SeqsUpTo(S, n) ==
    IF n = 0 THEN {<<>>}
    ELSE LET shorter == SeqsUpTo(S, n - 1)
         IN shorter \cup {Append(q, x) : q \in {r \in shorter : Len(r) = n - 1}, x \in S}

\* the test paper whose file is there
FilterPaper == PaperOf(CHOOSE raw \in RawPapers : raw.url = <<"x", "/", "1">>)
FilterPath == path_join(DownloadsFolder, url_suffix(FilterPaper.url))

\* the downloads folder holds a PDF under the paper's file name
InitFilter ==
    /\ TitleIdle /\ CollectionIdle /\ ExtIdle
    /\ pc = "new" /\ kind = "summary" /\ ignore_references_ = TRUE
    /\ chunk_size_ = DefaultChunkSize /\ papers_ = EmptyDict /\ todo = <<>>
    /\ doc_list = <<>> /\ db_ = <<>> /\ failed = {} /\ wget_calls = 0
    /\ \E pages \in SeqsUpTo(ReferenceTexts, MaxPages) :
          disk = DictSet(EmptyDict, FilterPath, [valid |-> TRUE, pages |-> pages])

NextFilter ==
    \/ \E ignore_references \in BOOLEAN :
          Construct("content", DictSet(EmptyDict, FilterPaper.title, FilterPaper),
                    <<FilterPaper.title>>, ignore_references, DefaultChunkSize)
    \/ \E outcome \in FetchOutcomes : ProcessContent(outcome)
    \/ BuildIndex

SpecFilter == InitFilter /\ [][NextFilter]_vars

----------------------------------------------------------------------------
(* The text splitter on its own *)

SplitTexts == StringsUpTo({"a", "b", NL, SP}, MaxTextLen)

\* CharacterTextSplitter(chunk_size=..., chunk_overlap=...).split_text(text)
split(text, chunk_size, chunk_overlap) ==
    /\ chunker.stage = "new"
    /\ chunker' = [stage |-> "split", text |-> text, chunk_size |-> chunk_size,
                   chunk_overlap |-> chunk_overlap,
                   chunks |-> split_text(text, chunk_size, chunk_overlap)]
    /\ UNCHANGED <<call, dl, cite, sourceVars, titleVars, collectionVars>>

NextChunk ==
    chunker.stage = "new" /\ \E text \in SplitTexts :
        \E chunk_size \in 2..MaxWindow : \E chunk_overlap \in 0..(chunk_size - 1) :
            split(text, chunk_size, chunk_overlap)

SpecChunk == Init /\ [][NextChunk]_vars

----------------------------------------------------------------------------
(* Paper.download called by a user of the Paper *)

OtherFolder == <<"t", "m", "p">>
Folders == {DownloadsFolder, OtherFolder}

Paper_download(paper, folder, use_title, outcome) ==
    /\ dl.calls < MaxDownloads
    /\ LET r == download(paper, folder, use_title, outcome, disk)
       IN /\ disk' = r.files
          /\ wget_calls' = wget_calls + (IF r.invoked THEN 1 ELSE 0)
          /\ dl' = [calls |-> dl.calls + 1, paper |-> paper, folder |-> folder,
                    use_title |-> use_title, invoked |-> r.invoked, ret |-> r.file_path]
    /\ UNCHANGED <<pc, kind, ignore_references_, chunk_size_, papers_, todo, doc_list, db_, failed,
                   call, chunker, cite, titleVars, collectionVars>>

NextDownload ==
    \E paper \in PaperPool : \E folder \in Folders : \E use_title \in BOOLEAN :
        \E outcome \in FetchOutcomes : Paper_download(paper, folder, use_title, outcome)

SpecDownload == Init /\ [][NextDownload]_vars

----------------------------------------------------------------------------
(* The citation methods of Paper (paper_class.py) *)

\* ', '.join(authors)
RECURSIVE join_authors(_)
join_authors(authors) ==
    IF authors = <<>> THEN <<>>
    ELSE IF Len(authors) = 1 THEN authors
    ELSE <<authors[1], ", ">> \o join_authors(Tail(authors))

\* only a time.struct_time has the attribute tm_year
has_tm_year(publish_date) == publish_date.type = "struct_time"

\* Paper.get_arxiv_citation: [raised, ret]
get_arxiv_citation(paper) ==
    IF ~has_tm_year(paper.publish_date)
    THEN [raised |-> "AttributeError", ret |-> <<>>]
    ELSE [raised |-> "",
          ret |-> join_authors(paper.authors) \o <<", ", paper.publish_date.year, ". ">>
                  \o paper.title \o <<". ">> \o paper.url]

\* Paper.get_APA_citation: authors[0] is read first, then publish_date.tm_year
get_APA_citation(paper) ==
    IF paper.authors = <<>> THEN [raised |-> "IndexError", ret |-> <<>>]
    ELSE IF ~has_tm_year(paper.publish_date) THEN [raised |-> "AttributeError", ret |-> <<>>]
    ELSE [raised |-> "",
          ret |-> <<paper.authors[1], " et al. (", paper.publish_date.year, ")">>]

\* the publish dates a caller can pass: the feed's struct_time, a datetime, a date string
PublishDates ==
    {[type |-> t, year |-> y] : t \in {"struct_time", "datetime"}, y \in {1999, 2020, 2023}}
    \cup {[type |-> "str", text |-> "unknown"]}

AuthorLists == {<<>>, <<"Xiang Li">>, <<"Xiang Li", ", Yiqun Yao">>}

CitedPapers ==
    {Paper(raw.title, raw.summary, raw.url, authors, publish_date) :
        raw \in RawPapers, authors \in AuthorLists, publish_date \in PublishDates}

cite_call(paper, method) ==
    /\ cite.stage = "new"
    /\ LET r == IF method = "get_arxiv_citation" THEN get_arxiv_citation(paper)
                ELSE get_APA_citation(paper)
       IN cite' = [stage |-> "called", paper |-> paper, method |-> method,
                   raised |-> r.raised, ret |-> r.ret]
    /\ UNCHANGED <<call, dl, chunker, sourceVars, titleVars, collectionVars>>

NextCite ==
    \E paper \in CitedPapers :
        \/ cite_call(paper, "get_arxiv_citation")
        \/ cite_call(paper, "get_APA_citation")

SpecCite == Init /\ [][NextCite]_vars

----------------------------------------------------------------------------
(* Claims about Paper.sanitize_title, checked under SpecTitle *)

\* C1: title sanitization is idempotent: sanitizing the stored (already sanitized)
\* title gives the stored title back.
C1_SanitizeIdempotent == stage = "resanitized" => again = self_title

\* C2: the title of a constructed Paper holds none of the nine characters
\* / \ : * ? " < > | (each was replaced by an underscore).
C2_NoForbiddenChars ==
    stage # "new" => \A i \in 1..Len(self_title) : self_title[i] \notin ForbiddenChars

\* C3: the title of a constructed Paper holds no newline directly followed by a space.
C3_NoNewlineSpace ==
    stage # "new" =>
        ~\E i \in 1..(Len(self_title) - 1) : self_title[i] = NL /\ self_title[i + 1] = SP

----------------------------------------------------------------------------
(* Claims about the Paper Source and the Paper Collection, checked under Spec *)

Range(f) == {f[x] : x \in DOMAIN f}

\* the chunks a strategy cuts from a paper's own content, reference chunks left out
\* when the filter is on
ChunksUnder(paper, strategy, chunk_size, ignore_references) ==
    IF strategy = "summary"
    THEN Range(PaperSummarySource_process_paper(paper, chunk_size))
    ELSE Range(tag_and_filter(
                 split_documents(PdfOf(paper.url),
                                 path_join(DownloadsFolder, url_suffix(paper.url))),
                 paper.title, ignore_references))

\* ... under the configuration of the Paper Source
NonFilteredChunks(paper) == ChunksUnder(paper, kind, chunk_size_, ignore_references_)

Registered(title) == \E k \in DOMAIN papers_ : papers_[k].title = title

\* C4: while a Paper Source is built, every chunk produced so far carries a source
\* that is a key of the registry.
C4_SourceIsRegistryKey ==
    pc = "init" => \A i \in 1..Len(doc_list) : doc_list[i].source \in DOMAIN papers_

\* C5: in every state of a built Paper Source the index holds exactly the
\* non-filtered chunks of the papers in the registry.
C5_IndexIsRegistryChunks ==
    pc = "ready" =>
        Range(db_) = UNION {NonFilteredChunks(papers_[k]) : k \in DOMAIN papers_}

\* either the paper is in the registry with all its chunks in the index, or it is in neither
AllOrNothing(paper, registry, index, chunks) ==
    LET registered == paper \in Range(registry)
    IN \/ registered /\ chunks \subseteq Range(index)
       \/ ~registered /\ chunks \cap Range(index) = {}

\* C6: whenever an ingestion attempt ends (the index is built or an exception
\* leaves it), every paper is all-or-nothing.
C6_IngestionAllOrNothing ==
    [][(pc = "init" /\ pc' # "init") =>
          \A paper \in PaperPool :
              AllOrNothing(paper, papers_', db_',
                           ChunksUnder(paper, kind', chunk_size_', ignore_references_'))]_vars

\* C7: whenever a batch ends, every paper of it whose own ingestion did not fail
\* has been ingested: its chunks are in the index.
C7_BatchNotAborted ==
    [][(pc = "init" /\ pc' # "init") =>
          \A k \in DOMAIN papers_' \ failed' :
              ChunksUnder(papers_'[k], kind', chunk_size_', ignore_references_')
                  \subseteq Range(db_')]_vars

\* C8: add_paper for a paper whose sanitized title is already registered fails with
\* DuplicateTitleError and changes neither the registry nor the index.
C8_DuplicateTitleError ==
    [][\A t \in Threads :
          (add_paper_line10(t) /\ Registered(targ[t].title)) =>
              (tres'[t] = "DuplicateTitleError" /\ papers_' = papers_ /\ db_' = db_)]_vars

\* C9: once two concurrent add_paper calls for distinct titles have both ended, both
\* succeeded and both papers are in the registry under their titles.
C9_ConcurrentAddsBothRegistered ==
    ((\A t \in Threads : tpc[t] = "done") /\ targ[1].title # targ[2].title) =>
        \A t \in Threads :
            /\ tres[t] = "ok"
            /\ targ[t].title \in DOMAIN papers_
            /\ papers_[targ[t].title] = targ[t]

\* C10: get_paper(title) returns the registered Paper when title is a key of the
\* registry, fails with NotFoundError (Python's KeyError) when it is absent, and
\* leaves the registry unchanged.
C10_GetPaper ==
    [][\A title \in AllKeys :
          get_paper(title) =>
              /\ papers_' = papers_
              /\ IF title \in DOMAIN papers_
                 THEN gp'.raised = "" /\ gp'.ret = <<papers_[title]>>
                 ELSE gp'.raised \in {"NotFoundError", "KeyError"}]_vars

----------------------------------------------------------------------------
(* Claims about retrieve and source_and_summarize, checked under SpecChat *)

\* a step in which the class's retrieve was called
Retrieved(cls) == call' # call /\ call'.op = "retrieve" /\ call'.cls = cls

\* C11 as stated: retrieve asks the index for k = num_retrieval whenever num_retrieval
\* is given, for k = the number of registered papers when it is omitted, and returns
\* min(k, number of chunks in the index) chunks.
C11_RetrieveK ==
    [][Retrieved("_PaperSource") =>
          LET n == call'.num_retrieval
          IN /\ call'.k = IF n = None THEN Cardinality(DOMAIN papers_) ELSE n[1]
             /\ Len(call'.sources) = Min(call'.k, Len(db_))]_vars

\* C11 amended: retrieve asks the index for k = num_retrieval when num_retrieval is
\* given and positive, for k = the current number of registered papers when it is
\* omitted or 0, and returns min(k, number of chunks in the index) chunks.
C11_RetrieveK_NonZero ==
    [][Retrieved("_PaperSource") =>
          LET n == call'.num_retrieval
          IN /\ call'.k = IF n = None \/ n = Some(0) THEN Cardinality(DOMAIN papers_) ELSE n[1]
             /\ Len(call'.sources) = Min(call'.k, Len(db_))]_vars

\* a retrieve that was given a k larger than the index and got every chunk of the index
C11_Witness ==
    /\ call.op = "retrieve" /\ call.cls = "_PaperSource"
    /\ call.num_retrieval = Some(2) /\ Len(call.sources) = 1 /\ Len(db_) = 1

\* C12: source_and_summarize on a query whose retrieval result is empty fails with the
\* "no sources" error (ValueError('No sources found.')) and has made no LLM call.
C12_NoSources ==
    (call.op = "source_and_summarize" /\ call.retrieved = <<>>) =>
        /\ call.at = "raised"
        /\ call.raised = "ValueError: No sources found."
        /\ call.prompts = <<>>

\* an empty retrieval from an index that holds no chunk of the one registered paper
C12_Witness ==
    /\ call.op = "source_and_summarize" /\ call.retrieved = <<>> /\ call.at = "raised"
    /\ Cardinality(DOMAIN papers_) = 1

\* C13: when source_and_summarize returns on a retrieval result of n > 0 chunks, it has
\* made exactly n LLM calls, the i-th about the i-th retrieved chunk, every chunk carries
\* the answer to its own call as summary metadata (no score: retrieve supplies none), and
\* the chunks returned are the n retrieved ones in the same order; while it runs, the
\* calls made so far are about the first chunks in retrieval order.
C13_SummarizeEach ==
    call.op = "source_and_summarize" =>
        LET n == Len(call.retrieved)
            m == Len(call.prompts)
        IN /\ m <= n
           /\ \A i \in 1..m : call.prompts[i] = call.retrieved[i].page_content
           /\ call.at = "returned" =>
                /\ n > 0 /\ m = n /\ Len(call.sources) = n
                /\ \A i \in 1..n :
                      /\ DOMAIN call.sources[i] = DOMAIN call.retrieved[i] \cup {"summary"}
                      /\ \A f \in DOMAIN call.retrieved[i] : call.sources[i][f] = call.retrieved[i][f]
                      /\ call.sources[i]["summary"] = answer_of(call.query, call.retrieved[i].page_content)

\* a call that returned two summarized chunks with different texts
C13_Witness ==
    /\ call.op = "source_and_summarize" /\ call.at = "returned"
    /\ Len(call.sources) = 2
    /\ call.sources[1].page_content # call.sources[2].page_content

\* C19: retrieve with num_retrieval = 0 does what retrieve without num_retrieval does:
\* a Paper Source asks the index for as many results as there are registered papers and
\* returns the nearest of them, not an empty result; a DocumentSource raises in both cases.
C19_ZeroIsOmitted ==
    [][/\ (Retrieved("_PaperSource") /\ call'.num_retrieval \in {None, Some(0)}) =>
             /\ call'.k = Cardinality(DOMAIN papers_)
             /\ call'.sources = SubSeq(ranked(db_, call'.query), 1,
                                       Min(Cardinality(DOMAIN papers_), Len(db_)))
       /\ (Retrieved("DocumentSource") /\ call'.num_retrieval \in {None, Some(0)}) =>
             call'.raised = "AttributeError"]_vars

\* a retrieve with num_retrieval = 0 that returned chunks
C19_Witness ==
    /\ call.op = "retrieve" /\ call.cls = "_PaperSource"
    /\ call.num_retrieval = Some(0) /\ Len(call.sources) = 2

----------------------------------------------------------------------------
(* Claims about the reference filter, checked under SpecFilter *)

\* t is "arXiv:", 4 digits, a period and 4 or 5 digits
IsArxivId(t) ==
    \E n \in {4, 5} :
        /\ Len(t) = 11 + n
        /\ SubSeq(t, 1, 6) = <<"a", "r", "X", "i", "v", ":">>
        /\ \A i \in 7..10 : t[i] \in Digits
        /\ t[11] = "."
        /\ \A i \in 12..(11 + n) : t[i] \in Digits

\* s contains such an identifier anywhere
ContainsArxivId(s) ==
    \E i \in 1..Len(s) : \E j \in i..Len(s) : IsArxivId(SubSeq(s, i, j))

\* s contains such an identifier as a whole word
ContainsArxivIdWord(s) ==
    \E i \in 1..Len(s) : \E j \in i..Len(s) :
        /\ IsArxivId(SubSeq(s, i, j))
        /\ (i = 1 \/ s[i - 1] \notin WordChars)
        /\ (j = Len(s) \/ s[j + 1] \notin WordChars)

\* the index holds, in their order, exactly the chunks of the file that dropped(_) does
\* not drop, each with its text and page
IndexIsChunksWithout(dropped(_)) ==
    LET chunks == split_documents(disk[FilterPath].pages, FilterPath)
        keptIdx == {i \in 1..Len(chunks) : ~dropped(chunks[i].page_content)}
        pos(i) == Cardinality({j \in keptIdx : j <= i})
    IN /\ Len(db_) = Cardinality(keptIdx)
       /\ \A i \in keptIdx :
             /\ db_[pos(i)].page_content = chunks[i].page_content
             /\ db_[pos(i)].page = chunks[i].page

\* C14 as stated: with reference filtering on, the full-content strategy drops exactly
\* the chunks whose text contains "arXiv:" followed by 4 digits, a period and 4 to 5
\* digits, and every other chunk reaches the index in its original relative order.
C14_FilterDropsIds ==
    (pc = "ready" /\ ignore_references_) => IndexIsChunksWithout(ContainsArxivId)

\* C14 amended: with reference filtering on, the full-content strategy drops exactly the
\* chunks whose text contains, as a whole word (neither preceded nor followed by a
\* letter, digit or underscore), "arXiv:" followed by 4 digits, a period and 4 to 5
\* digits; every other chunk reaches the index in its original relative order.
C14_FilterDropsWholeWordIds ==
    (pc = "ready" /\ ignore_references_) => IndexIsChunksWithout(ContainsArxivIdWord)

\* a file of two chunks, the first with arXiv:2309.00240 and dropped, the second with
\* only arXiv:23.456 and in the index
C14_Witness ==
    /\ pc = "ready" /\ ignore_references_
    /\ disk[FilterPath].pages =
          << <<"a", "r", "X", "i", "v", ":", "2", "3", "0", "9", ".", "0", "0", "2", "4", "0">>,
             <<"a", "r", "X", "i", "v", ":", "2", "3", ".", "4", "5", "6">> >>
    /\ Len(db_) = 1
    /\ db_[1].page_content = <<"a", "r", "X", "i", "v", ":", "2", "3", ".", "4", "5", "6">>

----------------------------------------------------------------------------
(* Claims about the chunker, checked under SpecChunk *)

\* C15: for a text of length L, window W and overlap O < W, the chunker produces
\* ceil((L - O) / (W - O)) chunks when L > O, and exactly 1 chunk otherwise.
C15_ChunkCount ==
    chunker.stage = "split" =>
        LET L == Len(chunker.text)
            W == chunker.chunk_size
            O == chunker.chunk_overlap
        IN Len(chunker.chunks) = IF L > O THEN (L - O + (W - O) - 1) \div (W - O) ELSE 1

\* C16: the i-th chunk (counting from 0) holds exactly the characters at positions
\* [i*(W-O), min(i*(W-O)+W, L)) of the text.
C16_ChunkPositions ==
    chunker.stage = "split" =>
        LET L == Len(chunker.text)
            W == chunker.chunk_size
            O == chunker.chunk_overlap
        IN \A i \in 0..(Len(chunker.chunks) - 1) :
              chunker.chunks[i + 1] = SubSeq(chunker.text, i * (W - O) + 1, Min(i * (W - O) + W, L))

----------------------------------------------------------------------------
(* Claims about Paper.download *)

\* C17 (SpecDownload): a download call that finds a file at the path it computes returns
\* that path and does not call the download collaborator; files stay, so after a call
\* that produced a file every further call with the same arguments does the same.
C17_DownloadIdempotent ==
    [][/\ DOMAIN disk \subseteq DOMAIN disk'
       /\ \A paper \in PaperPool : \A folder \in Folders : \A use_title \in BOOLEAN :
             LET path == path_join(folder, IF use_title THEN paper.title ELSE url_suffix(paper.url))
             IN (path \in DOMAIN disk /\ \E outcome \in FetchOutcomes :
                                             Paper_download(paper, folder, use_title, outcome))
                   => (wget_calls' = wget_calls /\ disk' = disk /\ dl'.ret = path)]_vars

\* three calls, of which only the first called the download collaborator
C17_Witness ==
    /\ dl.calls = 3 /\ wget_calls = 1 /\ ~dl.invoked
    /\ dl.ret \in DOMAIN disk /\ disk[dl.ret].valid /\ disk[dl.ret].pages = PdfOf(dl.paper.url)

\* C20 (Spec): two papers whose urls end in the same last segment get the same path in
\* the downloads folder; when the PaperContentSource comes to the second and the first
\* one's file is there, it does not call the download collaborator, leaves the file as
\* it is, and adds the chunks of the first paper's content under the second one's title.
C20_SuffixCollision ==
    [][\A p, q \in PaperPool :
          LET path == path_join(DownloadsFolder, url_suffix(q.url))
          IN (/\ p.url # q.url /\ url_suffix(p.url) = url_suffix(q.url)
              /\ pc = "init" /\ kind = "content" /\ todo # <<>> /\ papers_[Head(todo)] = q
              /\ path \in DOMAIN disk /\ disk[path] = [valid |-> TRUE, pages |-> PdfOf(p.url)]
              /\ \E outcome \in FetchOutcomes : ProcessContent(outcome))
             => /\ path = path_join(DownloadsFolder, url_suffix(p.url))
                /\ wget_calls' = wget_calls /\ disk' = disk
                /\ Len(doc_list') > Len(doc_list)
                /\ \A i \in (Len(doc_list) + 1)..Len(doc_list') :
                      /\ doc_list'[i].source = q.title
                      /\ \E j \in 1..Len(PdfOf(p.url)) :
                            doc_list'[i].page_content = strip(PdfOf(p.url)[j])]_vars

\* an index built over 'paper 2' (x/2) and then 'paper 1' (y/2) with one download: it
\* holds the text of x/2 under the title 'paper 1'
C20_Witness ==
    /\ pc = "ready" /\ kind = "content" /\ wget_calls = 1
    /\ \E i \in 1..Len(db_) :
          /\ db_[i].page_content = <<"c", "d">>
          /\ db_[i].source = <<"p", "a", "p", "e", "r", SP, "1">>

----------------------------------------------------------------------------
(* Claims about the citation methods, checked under SpecCite *)

\* C18: a citation method fails (MissingAttributeError) when the authors list is empty
\* or the publish date has no derivable year, and returns a citation string otherwise,
\* also for a publish date that is a date-time value with a year, as in the test papers.
C18_Citations ==
    cite.stage = "called" =>
        IF cite.paper.authors = <<>> \/ cite.paper.publish_date.type = "str"
        THEN cite.raised # ""
        ELSE cite.raised = "" /\ cite.ret # <<>>

====
